---- MODULE Spec2Model ----
(***************************************************************************)
(* Model of scripts/market_monitor.py: the snapshot aggregator             *)
(* (gather_data and the seven fetch_* adapters), the decision rule         *)
(* (evaluate) and the polling loop (main).                                 *)
(*                                                                         *)
(* Units.  Python floats are modelled by integers:                         *)
(*   eth_price, market_cap, volume, open_interest : the value itself       *)
(*   rsi, fear_greed                              : the value itself       *)
(*   macd, funding_rate                           : signed integer units   *)
(*   btc_dominance                                : tenths of a percent,   *)
(*                                                  so 59.5 is 595         *)
(*   clock, last_message                          : seconds                *)
(* float('nan') is the number NaN, which the ordering tests lt and gt      *)
(* treat as IEEE 754 does: every test with it is false.                    *)
(* An Optional[float] is <<>> (None) or <<v>>.                             *)
(***************************************************************************)
EXTENDS Integers, Sequences, FiniteSets, TLC

VARIABLES
    run_forever,    \* main's parameter (not --once)
    pc,             \* position of main: "gather", "evaluate", "loop_end", "stopped"
                    \* (and "eval_call", "eval_done" for a bare call of evaluate)
    clock,          \* what time.time() returns now
    last_oi,        \* main's last_oi : Optional[float]
    last_message,   \* main's last_message
    snap,           \* main's snap: the snapshot of the current iteration
    feed,           \* what the sources delivered for that snapshot, with the
                    \* number of closing prices the candle source sent
    macro_failed,   \* whether the calendar request for that snapshot failed
    signal,         \* main's signal: evaluate's result in the current iteration
    out,            \* the lines printed in the current iteration
    invoked,        \* the adapters gather_data called in the current iteration
    evaluated,      \* whether evaluate was called in the current iteration
    cycles,         \* loop iterations started so far
    sleeps,         \* time.sleep(300) calls completed so far
    drift,          \* clock ticks spent so far outside time.sleep
    hb_at,          \* history: when the latest heartbeat was printed, if no
                    \* signal was printed after it : Optional
    run_start,      \* history: when the current run of consecutive successful
                    \* iterations without a signal began : Optional
    prev_check,     \* history: when the latest silent iteration after the
                    \* last printed signal or heartbeat read the clock : Optional
    failed_adapter, \* history: position of the adapter that raised in the
                    \* current iteration, 0 when none did
    cycle_start,    \* history: the clock when the current iteration started
    good_oi         \* history: the open interest of the snapshot of the latest
                    \* iteration that ran its try body to the end : Optional

vars == <<run_forever, pc, clock, last_oi, last_message, snap, feed,
          macro_failed, signal, out, invoked, evaluated, cycles, sleeps,
          drift, hb_at, run_start, prev_check, failed_adapter, cycle_start,
          good_oi>>

----
\* Bounds of the model.
MaxCycles == 13     \* loop iterations explored
MaxLiveCycles == 4  \* loop iterations explored for the properties of progress
MaxDrift == 1       \* clock ticks (beyond the sleeps) explored in one run
TickLen == 60       \* seconds in one such tick
Spread == 1         \* evaluate's inputs lie within Spread of each threshold
MaxOI == 2          \* evaluate's open-interest inputs are 0..MaxOI

\* Program constants.
RsiHigh == 60
RsiLow == 40
PriceRef == 3550
DominanceRef == 595
FearGreedHigh == 60
FearGreedLow == 40
IdleInterval == 3600
SleepInterval == 300

\* ta needs window = 14 closes for a first RSI value, and window_slow +
\* window_sign - 1 = 34 closes for a first MACD difference; before that the
\* last element of the indicator series is NaN.
RsiWindow == 14
MacdMinCloses == 34
NaN == -1000000
gt(a, b) == a # NaN /\ b # NaN /\ a > b
lt(a, b) == a # NaN /\ b # NaN /\ a < b

None == <<>>
Some(v) == <<v>>
NoSignal == "None"
GoLong == "GO LONG"
Sell == "SELL"
Heartbeat == "I'm still checking"
ErrorLine == "Error"

----
\* class MarketSnapshot: the fields after __init__.
MarketSnapshot ==
    [eth_price |-> 0, market_cap |-> 0, volume |-> 0, rsi |-> 0, macd |-> 0,
     funding_rate |-> 0, open_interest |-> 0, btc_dominance |-> 0,
     fear_greed |-> 0, macro_events |-> <<>>]

\* The adapters in the order gather_data calls them.
Adapters ==
    <<"fetch_eth_market", "fetch_rsi_macd", "fetch_funding_rate",
      "fetch_open_interest", "fetch_btc_dominance", "fetch_fear_greed",
      "fetch_macro_events">>

\* Each fetch_* stores what its source delivered (src) into the snapshot.
fetch_eth_market(s, src) ==
    [s EXCEPT !.eth_price = src.eth_price,
              !.market_cap = src.market_cap,
              !.volume = src.volume]

\* fetch_rsi_macd: src.closes closing prices arrive; src.rsi and src.macd
\* are the indicator values of a series long enough.  Nothing tests the
\* length of the series: a short one gives NaN, and only an empty one
\* raises (iloc[-1] of an empty series).
fetch_rsi_macd_raises(src) == src.closes = 0

fetch_rsi_macd(s, src) ==
    [s EXCEPT !.rsi = IF src.closes < RsiWindow THEN NaN ELSE src.rsi,
              !.macd = IF src.closes < MacdMinCloses THEN NaN ELSE src.macd]

fetch_funding_rate(s, src) ==
    [s EXCEPT !.funding_rate = src.funding_rate]

fetch_open_interest(s, src) ==
    [s EXCEPT !.open_interest = src.open_interest]

fetch_btc_dominance(s, src) ==
    [s EXCEPT !.btc_dominance = src.btc_dominance]

fetch_fear_greed(s, src) ==
    [s EXCEPT !.fear_greed = src.fear_greed]

\* fetch_macro_events catches every exception of its request itself.
fetch_macro_events(s, src, macro_fail) ==
    [s EXCEPT !.macro_events = IF macro_fail THEN <<>> ELSE src.macro_events]

\* gather_data when fetch_macro_events lets its exception through.
gather_data_macro_raises(src, fail, macro_fail) ==
    LET s0 == MarketSnapshot
        s1 == fetch_eth_market(s0, src)
        s2 == fetch_rsi_macd(s1, src)
        s3 == fetch_funding_rate(s2, src)
        s4 == fetch_open_interest(s3, src)
        s5 == fetch_btc_dominance(s4, src)
        s6 == fetch_fear_greed(s5, src)
        s7 == fetch_macro_events(s6, src, macro_fail)
        at == IF fail = 1 THEN 1
              ELSE IF fetch_rsi_macd_raises(src) THEN 2
              ELSE fail
    IN  IF at = 0 /\ ~macro_fail
        THEN [raised |-> FALSE, snap |-> s7, invoked |-> Adapters,
              failed |-> 0]
        ELSE [raised |-> TRUE, snap |-> s0,
              invoked |-> IF at = 0 THEN Adapters
                          ELSE SubSeq(Adapters, 1, at),
              failed |-> IF at = 0 THEN Len(Adapters) ELSE at]

\* gather_data when it calls the remaining adapters after one has raised.
gather_data_continues(src, fail, macro_fail) ==
    LET s0 == MarketSnapshot
        s1 == fetch_eth_market(s0, src)
        s2 == fetch_rsi_macd(s1, src)
        s3 == fetch_funding_rate(s2, src)
        s4 == fetch_open_interest(s3, src)
        s5 == fetch_btc_dominance(s4, src)
        s6 == fetch_fear_greed(s5, src)
        s7 == fetch_macro_events(s6, src, macro_fail)
        at == IF fail = 1 THEN 1
              ELSE IF fetch_rsi_macd_raises(src) THEN 2
              ELSE fail
    IN  IF at = 0
        THEN [raised |-> FALSE, snap |-> s7, invoked |-> Adapters,
              failed |-> 0]
        ELSE [raised |-> TRUE, snap |-> s0, invoked |-> Adapters,
              failed |-> at]

\* gather_data: fail = 0 when no request fails, else the position (1..6) of
\* the first adapter whose request fails.  The result tells whether an
\* exception leaves gather_data, the snapshot returned, the adapters called
\* and the position of the adapter that raised.
gather_data(src, fail, macro_fail) ==
    LET s0 == MarketSnapshot
        s1 == fetch_eth_market(s0, src)
        s2 == fetch_rsi_macd(s1, src)
        s3 == fetch_funding_rate(s2, src)
        s4 == fetch_open_interest(s3, src)
        s5 == fetch_btc_dominance(s4, src)
        s6 == fetch_fear_greed(s5, src)
        s7 == fetch_macro_events(s6, src, macro_fail)
        at == IF fail = 1 THEN 1
              ELSE IF fetch_rsi_macd_raises(src) THEN 2
              ELSE fail
    IN  IF at = 0
        THEN [raised |-> FALSE, snap |-> s7, invoked |-> Adapters,
              failed |-> 0]
        ELSE [raised |-> TRUE, snap |-> s0,
              invoked |-> SubSeq(Adapters, 1, at), failed |-> at]

----
\* buy with an absent last_oi read as 0.
buy_none_as_zero(snapshot, oi) ==
    /\ gt(snapshot.rsi, RsiHigh)
    /\ gt(snapshot.macd, 0)
    /\ snapshot.eth_price > PriceRef
    /\ snapshot.btc_dominance < DominanceRef
    /\ snapshot.funding_rate <= 0
    /\ snapshot.open_interest > (IF oi = None THEN 0 ELSE oi[1])
    /\ snapshot.fear_greed > FearGreedHigh

\* buy with the funding-rate test made strict.
buy_funding_strict(snapshot, oi) ==
    /\ gt(snapshot.rsi, RsiHigh)
    /\ gt(snapshot.macd, 0)
    /\ snapshot.eth_price > PriceRef
    /\ snapshot.btc_dominance < DominanceRef
    /\ snapshot.funding_rate < 0
    /\ (oi # None /\ snapshot.open_interest > oi[1])
    /\ snapshot.fear_greed > FearGreedHigh

\* evaluate: the two rule sets and the result.
buy(snapshot, oi) ==
    /\ gt(snapshot.rsi, RsiHigh)
    /\ gt(snapshot.macd, 0)
    /\ snapshot.eth_price > PriceRef
    /\ snapshot.btc_dominance < DominanceRef
    /\ snapshot.funding_rate <= 0
    /\ (oi # None /\ snapshot.open_interest > oi[1])
    /\ snapshot.fear_greed > FearGreedHigh

\* sell pasted from buy with only the two rsi and fear_greed bounds changed.
sell_pasted(snapshot, oi) ==
    /\ gt(snapshot.rsi, RsiLow)
    /\ gt(snapshot.macd, 0)
    /\ snapshot.eth_price > PriceRef
    /\ snapshot.btc_dominance < DominanceRef
    /\ snapshot.funding_rate <= 0
    /\ (oi # None /\ snapshot.open_interest > oi[1])
    /\ snapshot.fear_greed > FearGreedLow

sell(snapshot, oi) ==
    /\ lt(snapshot.rsi, RsiLow)
    /\ lt(snapshot.macd, 0)
    /\ snapshot.eth_price < PriceRef
    /\ snapshot.btc_dominance > DominanceRef
    /\ snapshot.funding_rate > 0
    /\ (oi # None /\ snapshot.open_interest < oi[1])
    /\ snapshot.fear_greed < FearGreedLow

evaluate(snapshot, oi) ==
    IF buy(snapshot, oi) THEN GoLong
    ELSE IF sell(snapshot, oi) THEN Sell
    ELSE NoSignal

----
\* What the sources deliver in the loop: a bullish and a bearish market, each
\* with a low or a high open interest, a neutral market with or without
\* calendar entries, and a bullish market with too few closing prices, where
\* a full series would give a signal.
LoopOI == {8000, 12000}

Bullish(oi, ev, n) ==
    [eth_price |-> 3600, market_cap |-> 400, volume |-> 20, rsi |-> 65,
     macd |-> 1, funding_rate |-> -1, open_interest |-> oi,
     btc_dominance |-> 580, fear_greed |-> 70, macro_events |-> ev,
     closes |-> n]

Bearish(oi, ev, n) ==
    [eth_price |-> 3400, market_cap |-> 400, volume |-> 20, rsi |-> 35,
     macd |-> -1, funding_rate |-> 2, open_interest |-> oi,
     btc_dominance |-> 610, fear_greed |-> 30, macro_events |-> ev,
     closes |-> n]

Neutral(oi, ev, n) ==
    [eth_price |-> 3550, market_cap |-> 400, volume |-> 20, rsi |-> 50,
     macd |-> 0, funding_rate |-> 0, open_interest |-> oi,
     btc_dominance |-> 595, fear_greed |-> 50, macro_events |-> ev,
     closes |-> n]

LoopEvents == {<<>>, <<"FOMC">>}

\* Closing prices the candle source sends: the 100 the request asks for, or
\* too few: none, fewer than either indicator needs, fewer than 26.
FullCloses == 100
ShortCloses == {0, 13, 25}

LoopSources ==
    UNION {{Bullish(oi, <<>>, FullCloses), Bearish(oi, <<>>, FullCloses)}
           : oi \in LoopOI}
      \cup {Neutral(8000, ev, FullCloses) : ev \in LoopEvents}
      \cup {Bullish(12000, <<>>, n) : n \in ShortCloses}

\* fetch_macro_events, lines 77-81: the request can fail in any cycle. With no
\* calendar entries the failure returns the list the request would have
\* returned, so it is drawn where the calendar has entries.
MacroOutcomes(src) == IF src.macro_events = <<>> THEN {FALSE} ELSE BOOLEAN

\* Seconds the clock can advance while main is not in time.sleep.
Delays == {0, TickLen}

StartTimes == {0, IdleInterval}

----
\* main with last_oi starting at 0.0 in place of None.
Init_ZeroOI ==
    /\ run_forever \in BOOLEAN
    /\ pc = "gather"
    /\ clock \in StartTimes
    /\ last_oi = Some(0)
    /\ last_message = 0
    /\ snap = MarketSnapshot
    /\ feed = MarketSnapshot
    /\ macro_failed = FALSE
    /\ signal = NoSignal
    /\ out = <<>>
    /\ invoked = <<>>
    /\ evaluated = FALSE
    /\ cycles = 1
    /\ sleeps = 0
    /\ drift = 0
    /\ hb_at = None
    /\ run_start = None
    /\ prev_check = None
    /\ failed_adapter = 0
    /\ cycle_start = clock
    /\ good_oi = None

\* main with last_message starting at the current time.
Init_StampStart ==
    /\ run_forever \in BOOLEAN
    /\ pc = "gather"
    /\ clock \in StartTimes
    /\ last_oi = None
    /\ last_message = clock
    /\ snap = MarketSnapshot
    /\ feed = MarketSnapshot
    /\ macro_failed = FALSE
    /\ signal = NoSignal
    /\ out = <<>>
    /\ invoked = <<>>
    /\ evaluated = FALSE
    /\ cycles = 1
    /\ sleeps = 0
    /\ drift = 0
    /\ hb_at = None
    /\ run_start = None
    /\ prev_check = None
    /\ failed_adapter = 0
    /\ cycle_start = clock
    /\ good_oi = None

\* main, lines 123-124, at the first pass of line 125.
Init ==
    /\ run_forever \in BOOLEAN
    /\ pc = "gather"
    /\ clock \in StartTimes
    /\ last_oi = None
    /\ last_message = 0
    /\ snap = MarketSnapshot
    /\ feed = MarketSnapshot
    /\ macro_failed = FALSE
    /\ signal = NoSignal
    /\ out = <<>>
    /\ invoked = <<>>
    /\ evaluated = FALSE
    /\ cycles = 1
    /\ sleeps = 0
    /\ drift = 0
    /\ hb_at = None
    /\ run_start = None
    /\ prev_check = None
    /\ failed_adapter = 0
    /\ cycle_start = clock
    /\ good_oi = None

\* The clock moves on by d seconds outside time.sleep.
Elapse(d) ==
    /\ d = 0 \/ drift < MaxDrift
    /\ clock' = clock + d
    /\ drift' = IF d = 0 THEN drift ELSE drift + 1

\* main, line 127: gather_data returns a snapshot.
GatherOk ==
    /\ pc = "gather"
    /\ \E src \in LoopSources :
       \E fail \in 0..6, macro_fail \in MacroOutcomes(src), d \in Delays :
          LET g == gather_data(src, fail, macro_fail)
          IN  /\ ~g.raised
              /\ snap' = g.snap
              /\ invoked' = g.invoked
              /\ failed_adapter' = g.failed
              /\ feed' = src
              /\ macro_failed' = macro_fail
              /\ Elapse(d)
    /\ out' = <<>>
    /\ pc' = "evaluate"
    /\ UNCHANGED <<run_forever, last_oi, last_message, signal, evaluated,
                   cycles, sleeps, hb_at, run_start, prev_check, cycle_start,
                   good_oi>>

\* An exception that leaves the try body undoes nothing and stops the process.
GatherFail_Uncaught ==
    /\ pc = "gather"
    /\ \E src \in LoopSources :
       \E fail \in 0..6, macro_fail \in MacroOutcomes(src), d \in Delays :
          LET g == gather_data(src, fail, macro_fail)
          IN  /\ g.raised
              /\ invoked' = g.invoked
              /\ failed_adapter' = g.failed
              /\ macro_failed' = (macro_fail /\ Len(g.invoked) = Len(Adapters))
              /\ Elapse(d)
    /\ out' = <<ErrorLine>>
    /\ run_start' = None
    /\ pc' = "stopped"
    /\ UNCHANGED <<run_forever, last_oi, last_message, snap, feed, signal,
                   evaluated, cycles, sleeps, hb_at, prev_check, cycle_start,
                   good_oi>>

\* The handler forgets the remembered open interest.
GatherFail_ForgetsOI ==
    /\ pc = "gather"
    /\ \E src \in LoopSources :
       \E fail \in 0..6, macro_fail \in MacroOutcomes(src), d \in Delays :
          LET g == gather_data(src, fail, macro_fail)
          IN  /\ g.raised
              /\ invoked' = g.invoked
              /\ failed_adapter' = g.failed
              /\ macro_failed' = (macro_fail /\ Len(g.invoked) = Len(Adapters))
              /\ Elapse(d)
    /\ out' = <<ErrorLine>>
    /\ run_start' = None
    /\ last_oi' = None
    /\ pc' = "loop_end"
    /\ UNCHANGED <<run_forever, last_message, snap, feed, signal, evaluated,
                   cycles, sleeps, hb_at, prev_check, cycle_start, good_oi>>

\* The handler goes back to line 125 at once (continue) without the sleep.
GatherFail_ImmediateRetry ==
    /\ pc = "gather"
    /\ \E src \in LoopSources :
       \E fail \in 0..6, macro_fail \in MacroOutcomes(src), d \in Delays :
          LET g == gather_data(src, fail, macro_fail)
          IN  /\ g.raised
              /\ invoked' = g.invoked
              /\ failed_adapter' = g.failed
              /\ macro_failed' = (macro_fail /\ Len(g.invoked) = Len(Adapters))
              /\ Elapse(d)
    /\ out' = <<ErrorLine>>
    /\ run_start' = None
    /\ cycles < MaxCycles
    /\ cycles' = cycles + 1
    /\ cycle_start' = clock'
    /\ pc' = "gather"
    /\ UNCHANGED <<run_forever, last_oi, last_message, snap, feed, signal,
                   evaluated, sleeps, hb_at, prev_check, good_oi>>

\* The handler stamps last_message after printing the diagnostic.
GatherFail_StampsError ==
    /\ pc = "gather"
    /\ \E src \in LoopSources :
       \E fail \in 0..6, macro_fail \in MacroOutcomes(src), d \in Delays :
          LET g == gather_data(src, fail, macro_fail)
          IN  /\ g.raised
              /\ invoked' = g.invoked
              /\ failed_adapter' = g.failed
              /\ macro_failed' = (macro_fail /\ Len(g.invoked) = Len(Adapters))
              /\ Elapse(d)
    /\ out' = <<ErrorLine>>
    /\ run_start' = None
    /\ last_message' = clock'
    /\ pc' = "loop_end"
    /\ UNCHANGED <<run_forever, last_oi, snap, feed, signal, evaluated,
                   cycles, sleeps, hb_at, prev_check, cycle_start, good_oi>>

\* main, lines 127 and 136-137: an exception leaves gather_data and the try
\* body, and the handler prints the diagnostic.
GatherFail ==
    /\ pc = "gather"
    /\ \E src \in LoopSources :
       \E fail \in 0..6, macro_fail \in MacroOutcomes(src), d \in Delays :
          LET g == gather_data(src, fail, macro_fail)
          IN  /\ g.raised
              /\ invoked' = g.invoked
              /\ failed_adapter' = g.failed
              /\ macro_failed' = (macro_fail /\ Len(g.invoked) = Len(Adapters))
              /\ Elapse(d)
    /\ out' = <<ErrorLine>>
    /\ run_start' = None
    /\ pc' = "loop_end"
    /\ UNCHANGED <<run_forever, last_oi, last_message, snap, feed, signal,
                   evaluated, cycles, sleeps, hb_at, prev_check, cycle_start,
                   good_oi>>

\* The test of line 132 with > in place of >=.
heartbeat_due_strict(now, last) == now - last > IdleInterval

\* main, line 132: the heartbeat test.
heartbeat_due(now, last) == now - last >= IdleInterval

\* The heartbeat branch without line 134.
Report_NoStamp ==
    /\ pc = "evaluate"
    /\ LET sig == evaluate(snap, last_oi)
       IN  /\ signal' = sig
           /\ \/ /\ sig # NoSignal
                 /\ out' = Append(out, sig)
                 /\ last_message' = clock
                 /\ hb_at' = None
                 /\ run_start' = None
                 /\ prev_check' = None
                 /\ UNCHANGED <<clock, drift>>
              \/ /\ sig = NoSignal
                 /\ heartbeat_due(clock, last_message)
                 /\ out' = Append(out, Heartbeat)
                 /\ hb_at' = Some(clock)
                 /\ run_start' = IF run_start = None THEN Some(clock)
                                 ELSE run_start
                 /\ prev_check' = None
                 /\ \E e \in Delays : Elapse(e)
                 /\ UNCHANGED last_message
              \/ /\ sig = NoSignal /\ ~heartbeat_due(clock, last_message)
                 /\ run_start' = IF run_start = None THEN Some(clock)
                                 ELSE run_start
                 /\ prev_check' = Some(clock)
                 /\ UNCHANGED <<last_message, clock, drift, hb_at, out>>
    /\ last_oi' = Some(snap.open_interest)
    /\ good_oi' = Some(snap.open_interest)
    /\ evaluated' = TRUE
    /\ pc' = "loop_end"
    /\ UNCHANGED <<run_forever, snap, feed, macro_failed, invoked, cycles,
                   sleeps, failed_adapter, cycle_start>>

\* Line 135 indented into the branches that print.
Report_OIOnOutput ==
    /\ pc = "evaluate"
    /\ LET sig == evaluate(snap, last_oi)
       IN  /\ signal' = sig
           /\ \/ /\ sig # NoSignal
                 /\ out' = Append(out, sig)
                 /\ last_message' = clock
                 /\ hb_at' = None
                 /\ run_start' = None
                 /\ prev_check' = None
                 /\ last_oi' = Some(snap.open_interest)
                 /\ UNCHANGED <<clock, drift>>
              \/ /\ sig = NoSignal
                 /\ heartbeat_due(clock, last_message)
                 /\ out' = Append(out, Heartbeat)
                 /\ hb_at' = Some(clock)
                 /\ run_start' = IF run_start = None THEN Some(clock)
                                 ELSE run_start
                 /\ prev_check' = None
                 /\ last_oi' = Some(snap.open_interest)
                 /\ \E e \in Delays :
                       /\ Elapse(e)
                       /\ last_message' = clock + e
              \/ /\ sig = NoSignal /\ ~heartbeat_due(clock, last_message)
                 /\ run_start' = IF run_start = None THEN Some(clock)
                                 ELSE run_start
                 /\ prev_check' = Some(clock)
                 /\ UNCHANGED <<last_message, clock, drift, hb_at, out, last_oi>>
    /\ good_oi' = Some(snap.open_interest)
    /\ evaluated' = TRUE
    /\ pc' = "loop_end"
    /\ UNCHANGED <<run_forever, snap, feed, macro_failed, invoked, cycles,
                   sleeps, failed_adapter, cycle_start>>

\* Line 129 asking for the idle interval too: a signal is printed only
\* when the heartbeat would be due.
Report_ThrottledSignal ==
    /\ pc = "evaluate"
    /\ LET sig == evaluate(snap, last_oi)
       IN  /\ signal' = sig
           /\ \/ /\ sig # NoSignal /\ heartbeat_due(clock, last_message)
                 /\ out' = Append(out, sig)
                 /\ last_message' = clock
                 /\ hb_at' = None
                 /\ run_start' = None
                 /\ prev_check' = None
                 /\ UNCHANGED <<clock, drift>>
              \/ /\ sig = NoSignal
                 /\ heartbeat_due(clock, last_message)
                 /\ out' = Append(out, Heartbeat)
                 /\ hb_at' = Some(clock)
                 /\ run_start' = IF run_start = None THEN Some(clock)
                                 ELSE run_start
                 /\ prev_check' = None
                 /\ \E e \in Delays :
                       /\ Elapse(e)
                       /\ last_message' = clock + e
              \/ /\ ~heartbeat_due(clock, last_message)
                 /\ run_start' = IF run_start = None THEN Some(clock)
                                 ELSE run_start
                 /\ prev_check' = Some(clock)
                 /\ UNCHANGED <<last_message, clock, drift, hb_at, out>>
    /\ last_oi' = Some(snap.open_interest)
    /\ good_oi' = Some(snap.open_interest)
    /\ evaluated' = TRUE
    /\ pc' = "loop_end"
    /\ UNCHANGED <<run_forever, snap, feed, macro_failed, invoked, cycles,
                   sleeps, failed_adapter, cycle_start>>

\* Line 135 placed before line 128: evaluate gets the open interest of the
\* snapshot it is given.
Report_UpdateFirst ==
    /\ pc = "evaluate"
    /\ LET sig == evaluate(snap, Some(snap.open_interest))
       IN  /\ signal' = sig
           /\ \/ /\ sig # NoSignal
                 /\ out' = Append(out, sig)
                 /\ last_message' = clock
                 /\ hb_at' = None
                 /\ run_start' = None
                 /\ prev_check' = None
                 /\ UNCHANGED <<clock, drift>>
              \/ /\ sig = NoSignal
                 /\ heartbeat_due(clock, last_message)
                 /\ out' = Append(out, Heartbeat)
                 /\ hb_at' = Some(clock)
                 /\ run_start' = IF run_start = None THEN Some(clock)
                                 ELSE run_start
                 /\ prev_check' = None
                 /\ \E e \in Delays :
                       /\ Elapse(e)
                       /\ last_message' = clock + e
              \/ /\ sig = NoSignal /\ ~heartbeat_due(clock, last_message)
                 /\ run_start' = IF run_start = None THEN Some(clock)
                                 ELSE run_start
                 /\ prev_check' = Some(clock)
                 /\ UNCHANGED <<last_message, clock, drift, hb_at, out>>
    /\ last_oi' = Some(snap.open_interest)
    /\ good_oi' = Some(snap.open_interest)
    /\ evaluated' = TRUE
    /\ pc' = "loop_end"
    /\ UNCHANGED <<run_forever, snap, feed, macro_failed, invoked, cycles,
                   sleeps, failed_adapter, cycle_start>>

\* Line 135 raising (a misspelt attribute): the handler prints the diagnostic
\* after whatever the try body printed.
Report_RaisesAtEnd ==
    /\ pc = "evaluate"
    /\ LET sig == evaluate(snap, last_oi)
       IN  /\ signal' = sig
           /\ \/ /\ sig # NoSignal
                 /\ out' = Append(Append(out, sig), ErrorLine)
                 /\ last_message' = clock
                 /\ hb_at' = None
                 /\ run_start' = None
                 /\ prev_check' = None
                 /\ UNCHANGED <<clock, drift>>
              \/ /\ sig = NoSignal
                 /\ heartbeat_due(clock, last_message)
                 /\ out' = Append(Append(out, Heartbeat), ErrorLine)
                 /\ hb_at' = Some(clock)
                 /\ run_start' = IF run_start = None THEN Some(clock)
                                 ELSE run_start
                 /\ prev_check' = None
                 /\ \E e \in Delays :
                       /\ Elapse(e)
                       /\ last_message' = clock + e
              \/ /\ sig = NoSignal /\ ~heartbeat_due(clock, last_message)
                 /\ out' = Append(out, ErrorLine)
                 /\ run_start' = IF run_start = None THEN Some(clock)
                                 ELSE run_start
                 /\ prev_check' = Some(clock)
                 /\ UNCHANGED <<last_message, clock, drift, hb_at>>
    /\ UNCHANGED last_oi
    /\ good_oi' = Some(snap.open_interest)
    /\ evaluated' = TRUE
    /\ pc' = "loop_end"
    /\ UNCHANGED <<run_forever, snap, feed, macro_failed, invoked, cycles,
                   sleeps, failed_adapter, cycle_start>>

\* main, lines 128-135: evaluate, print, stamp, remember the open interest.
\* The heartbeat branch reads the clock twice (lines 132 and 134); e seconds
\* pass in between.
Report ==
    /\ pc = "evaluate"
    /\ LET sig == evaluate(snap, last_oi)
       IN  /\ signal' = sig
           /\ \/ /\ sig # NoSignal
                 /\ out' = Append(out, sig)
                 /\ last_message' = clock
                 /\ hb_at' = None
                 /\ run_start' = None
                 /\ prev_check' = None
                 /\ UNCHANGED <<clock, drift>>
              \/ /\ sig = NoSignal
                 /\ heartbeat_due(clock, last_message)
                 /\ out' = Append(out, Heartbeat)
                 /\ hb_at' = Some(clock)
                 /\ run_start' = IF run_start = None THEN Some(clock)
                                 ELSE run_start
                 /\ prev_check' = None
                 /\ \E e \in Delays :
                       /\ Elapse(e)
                       /\ last_message' = clock + e
              \/ /\ sig = NoSignal /\ ~heartbeat_due(clock, last_message)
                 /\ run_start' = IF run_start = None THEN Some(clock)
                                 ELSE run_start
                 /\ prev_check' = Some(clock)
                 /\ UNCHANGED <<last_message, clock, drift, hb_at, out>>
    /\ last_oi' = Some(snap.open_interest)
    /\ good_oi' = Some(snap.open_interest)
    /\ evaluated' = TRUE
    /\ pc' = "loop_end"
    /\ UNCHANGED <<run_forever, snap, feed, macro_failed, invoked, cycles,
                   sleeps, failed_adapter, cycle_start>>

\* Lines 138-139 placed after line 140: the single run sleeps before it ends.
Break_AfterSleep ==
    /\ pc = "loop_end"
    /\ ~run_forever
    /\ clock' = clock + SleepInterval
    /\ sleeps' = sleeps + 1
    /\ pc' = "stopped"
    /\ UNCHANGED <<run_forever, last_oi, last_message, snap, feed,
                   macro_failed, signal, out, invoked, evaluated, cycles,
                   drift, hb_at, run_start, prev_check, failed_adapter,
                   cycle_start, good_oi>>

\* main, lines 138-139: a single run leaves the loop.
Break ==
    /\ pc = "loop_end"
    /\ ~run_forever
    /\ pc' = "stopped"
    /\ UNCHANGED <<run_forever, clock, last_oi, last_message, snap, feed,
                   macro_failed, signal, out, invoked, evaluated, cycles,
                   sleeps, drift, hb_at, run_start, prev_check,
                   failed_adapter, cycle_start, good_oi>>

\* main, line 140 and back to line 125: sleep, then the next iteration.
\* The new iteration reads none of the previous one's snap and signal (line
\* 127 rebinds snap before any use), so they start afresh with it.
SleepUpTo(max) ==
    /\ pc = "loop_end"
    /\ run_forever
    /\ cycles < max
    /\ clock' = clock + SleepInterval
    /\ sleeps' = sleeps + 1
    /\ cycles' = cycles + 1
    /\ cycle_start' = clock'
    /\ snap' = MarketSnapshot
    /\ feed' = MarketSnapshot
    /\ macro_failed' = FALSE
    /\ signal' = NoSignal
    /\ out' = <<>>
    /\ invoked' = <<>>
    /\ failed_adapter' = 0
    /\ evaluated' = FALSE
    /\ pc' = "gather"
    /\ UNCHANGED <<run_forever, last_oi, last_message, drift, hb_at,
                   run_start, prev_check, good_oi>>

Sleep == SleepUpTo(MaxCycles)

Next == GatherOk \/ GatherFail \/ Report \/ Break \/ Sleep

Spec == Init /\ [][Next]_vars

\* The same loop over fewer iterations, for the properties of progress.  The
\* loop is the only thread of the process: it always takes its next step.
SleepLive == SleepUpTo(MaxLiveCycles)

NextLive == GatherOk \/ GatherFail \/ Report \/ Break \/ SleepLive

LiveSpec == Init /\ [][NextLive]_vars /\ WF_vars(NextLive)

----
\* A bare call of evaluate on inputs around every threshold, and on NaN
\* indicators.
Around(t) == (t - Spread)..(t + Spread)

EvalOI == 0..MaxOI

EvalSnapshots ==
    {[eth_price |-> p, market_cap |-> 0, volume |-> 0, rsi |-> r, macd |-> m,
      funding_rate |-> f, open_interest |-> o, btc_dominance |-> b,
      fear_greed |-> g, macro_events |-> <<>>] :
        p \in Around(PriceRef),
        r \in Around(RsiLow) \cup Around(RsiHigh) \cup {NaN},
        m \in Around(0) \cup {NaN},
        f \in Around(0),
        o \in EvalOI,
        b \in Around(DominanceRef),
        g \in Around(FearGreedLow) \cup Around(FearGreedHigh)}

EvalLastOI == {None} \cup {Some(o) : o \in EvalOI}

InitEval ==
    /\ run_forever = FALSE
    /\ pc = "eval_call"
    /\ clock = 0
    /\ last_oi \in EvalLastOI
    /\ last_message = 0
    /\ snap \in EvalSnapshots
    /\ feed = MarketSnapshot
    /\ macro_failed = FALSE
    /\ signal = NoSignal
    /\ out = <<>>
    /\ invoked = <<>>
    /\ evaluated = FALSE
    /\ cycles = 1
    /\ sleeps = 0
    /\ drift = 0
    /\ hb_at = None
    /\ run_start = None
    /\ prev_check = None
    /\ failed_adapter = 0
    /\ cycle_start = 0
    /\ good_oi = None

EvalStep ==
    /\ pc = "eval_call"
    /\ signal' = evaluate(snap, last_oi)
    /\ pc' = "eval_done"
    /\ UNCHANGED <<run_forever, clock, last_oi, last_message, snap, feed,
                   macro_failed, out, invoked, evaluated, cycles, sleeps,
                   drift, hb_at, run_start, prev_check, failed_adapter,
                   cycle_start, good_oi>>

NextEval == EvalStep

EvalSpec == InitEval /\ [][NextEval]_vars

----
\* An iteration that failed: the handler printed the diagnostic.
FailedCycle == out = <<ErrorLine>>

\* C1: in an iteration in which gather_data raises, last_oi keeps the value
\* it had before the iteration, from the raise to the end of the iteration.
C1_FailureKeepsOpenInterest ==
    [][((pc' = "loop_end" /\ out' = <<ErrorLine>>)
            \/ (pc = "loop_end" /\ out = <<ErrorLine>>))
        => last_oi' = last_oi]_vars

\* A third or later iteration that failed after an earlier one succeeded.
C1_Witness ==
    /\ pc = "loop_end"
    /\ FailedCycle
    /\ last_oi # None
    /\ cycles >= 3

\* C2: with run_forever the loop never stops, and every finished iteration,
\* failed or not, is followed by the start of the next one.
C2_ContinuousKeepsRunning ==
    /\ [](run_forever => pc # "stopped")
    /\ (run_forever /\ pc = "loop_end" /\ cycles < MaxLiveCycles)
          ~> (pc = "gather" /\ cycles > 1 /\ sleeps = cycles - 1)

\* The third iteration starts after two failed ones.
C2_Witness ==
    /\ run_forever
    /\ pc = "gather"
    /\ cycles = 3
    /\ sleeps = 2
    /\ last_oi = None

\* C3: without run_forever the loop stops after its first iteration, failed
\* or not, and never sleeps.
C3_SingleRunStops ==
    /\ [](~run_forever =>
            /\ cycles = 1
            /\ sleeps = 0
            /\ clock - TickLen * drift \in StartTimes
            /\ (pc = "stopped" => (evaluated \/ FailedCycle)))
    /\ (~run_forever) ~> (pc = "stopped")

\* A single run that stopped after a failed iteration.
C3_Witness ==
    /\ ~run_forever
    /\ pc = "stopped"
    /\ FailedCycle
    /\ ~evaluated

\* The rule sets as the specification lists them.
LongRule ==
    /\ gt(snap.rsi, 60)
    /\ gt(snap.macd, 0)
    /\ snap.eth_price > 3550
    /\ snap.btc_dominance < 595
    /\ snap.funding_rate <= 0
    /\ last_oi # None
    /\ snap.open_interest > last_oi[1]
    /\ snap.fear_greed > 60

ShortRule ==
    /\ lt(snap.rsi, 40)
    /\ lt(snap.macd, 0)
    /\ snap.eth_price < 3550
    /\ snap.btc_dominance > 595
    /\ snap.funding_rate > 0
    /\ last_oi # None
    /\ snap.open_interest < last_oi[1]
    /\ snap.fear_greed < 40

\* C4: evaluate returns GO LONG exactly when the seven LONG conditions hold,
\* otherwise SELL exactly when the seven SHORT conditions hold, otherwise
\* nothing.
C4_EvaluateFollowsRules ==
    pc = "eval_done" =>
        signal = IF LongRule THEN GoLong
                 ELSE IF ShortRule THEN Sell
                 ELSE NoSignal

\* A LONG decided with the funding rate on its threshold.
C4_Witness ==
    /\ pc = "eval_done"
    /\ signal = GoLong
    /\ snap.funding_rate = 0
    /\ snap.rsi = 61

\* C5: with last_oi absent evaluate returns nothing, whatever the snapshot.
C5_UnknownOpenInterestGivesNone ==
    (pc = "eval_done" /\ last_oi = None) => signal = NoSignal

\* Every other LONG condition holds and last_oi is absent.
C5_Witness ==
    /\ pc = "eval_done"
    /\ last_oi = None
    /\ gt(snap.rsi, 60) /\ gt(snap.macd, 0) /\ snap.eth_price > 3550
    /\ snap.btc_dominance < 595 /\ snap.funding_rate <= 0
    /\ snap.open_interest > 0 /\ snap.fear_greed > 60
    /\ signal = NoSignal

\* C6: no input satisfies both rule sets of evaluate, so testing sell before
\* buy would give the same result.
C6_RulesExclusive ==
    pc = "eval_done" =>
        /\ ~(buy(snap, last_oi) /\ sell(snap, last_oi))
        /\ signal = IF sell(snap, last_oi) THEN Sell
                    ELSE IF buy(snap, last_oi) THEN GoLong
                    ELSE NoSignal

\* The SHORT rule set holds.
C6_Witness ==
    /\ pc = "eval_done"
    /\ sell(snap, last_oi)
    /\ signal = Sell

\* A step of Report that printed the heartbeat, and one that printed nothing.
HeartbeatStep == pc = "evaluate" /\ pc' = "loop_end" /\ out' = <<Heartbeat>>
SilentStep == pc = "evaluate" /\ pc' = "loop_end" /\ out' = <<>>

\* C7 as stated, taken for the iterations that follow a first output
\* (last_message > 0): a successful iteration without a signal prints the
\* heartbeat and stamps last_message exactly when more than 3600 seconds
\* passed since the last output; at 3600 or less nothing changes.
C7_Original ==
    [][(pc = "evaluate" /\ pc' = "loop_end" /\ signal' = NoSignal
            /\ last_message > 0) =>
          /\ (clock - last_message > 3600) =>
                (out' = <<Heartbeat>> /\ last_message' = clock')
          /\ (clock - last_message <= 3600) =>
                (out' = <<>> /\ last_message' = last_message)]_vars

\* C7 amended: the heartbeat is printed and last_message stamped exactly
\* when at least 3600 seconds passed; below 3600 nothing changes.
C7_HeartbeatAtIdleInterval ==
    [][(pc = "evaluate" /\ pc' = "loop_end" /\ signal' = NoSignal) =>
          /\ (clock - last_message >= 3600) =>
                (out' = <<Heartbeat>> /\ last_message' = clock')
          /\ (clock - last_message < 3600) =>
                (out' = <<>> /\ last_message' = last_message)]_vars

\* A heartbeat printed exactly 3600 seconds after the previous output.
C7_Witness ==
    /\ pc = "loop_end"
    /\ out = <<Heartbeat>>
    /\ hb_at # None
    /\ hb_at[1] >= 2 * 3600
    /\ last_message = clock

\* C8 as stated, taken for the heartbeats that follow a first output
\* (last_message > 0): a run of successful iterations without a signal that
\* spans less than 3600 seconds holds at most one heartbeat; a heartbeat is
\* printed only in the first iteration in which more than 3600 seconds passed
\* since the last output; two heartbeats without a signal in between are more
\* than 3600 seconds apart.
C8_Original ==
    [][(HeartbeatStep /\ last_message > 0) =>
          /\ clock - last_message > 3600
          /\ prev_check # None => prev_check[1] - last_message <= 3600
          /\ hb_at # None => clock - hb_at[1] > 3600
          /\ (run_start # None /\ hb_at # None /\ hb_at[1] >= run_start[1])
                => clock - run_start[1] >= 3600]_vars

\* C8 amended: the same with "at least 3600" for "more than 3600".
C8_HeartbeatOncePerInterval ==
    [][HeartbeatStep =>
          /\ clock - last_message >= 3600
          /\ prev_check # None => prev_check[1] - last_message < 3600
          /\ hb_at # None => clock - hb_at[1] >= 3600
          /\ (run_start # None /\ hb_at # None /\ hb_at[1] >= run_start[1])
                => clock - run_start[1] >= 3600]_vars

\* The second heartbeat of one run of silent iterations.
C8_Witness ==
    /\ pc = "loop_end"
    /\ out = <<Heartbeat>>
    /\ hb_at # None
    /\ run_start # None
    /\ hb_at[1] - run_start[1] >= 3600

\* C9: once a successful iteration is over, last_oi is the open interest of
\* its snapshot, whatever it printed.
C9_SuccessStoresOpenInterest ==
    (pc \in {"loop_end", "stopped"} /\ evaluated) =>
        /\ last_oi = Some(snap.open_interest)
        /\ last_oi = Some(feed.open_interest)

\* A silent successful iteration whose open interest differs from the one
\* before.
C9_Witness ==
    /\ pc = "loop_end"
    /\ evaluated
    /\ out = <<>>
    /\ cycles >= 2
    /\ last_oi = Some(12000)

\* C10: when only the calendar request fails, gather_data raises nothing,
\* the snapshot has no macro events and otherwise what the sources
\* delivered, and the iteration evaluates and stores the open interest.
C10_MacroFailureSwallowed ==
    macro_failed =>
        /\ ~FailedCycle
        /\ pc \in {"evaluate", "loop_end", "stopped"}
        /\ invoked = Adapters
        /\ snap.macro_events = <<>>
        /\ snap.eth_price = feed.eth_price
        /\ snap.market_cap = feed.market_cap
        /\ snap.volume = feed.volume
        /\ snap.rsi = (IF feed.closes < 14 THEN NaN ELSE feed.rsi)
        /\ snap.macd = (IF feed.closes < 34 THEN NaN ELSE feed.macd)
        /\ snap.funding_rate = feed.funding_rate
        /\ snap.open_interest = feed.open_interest
        /\ snap.btc_dominance = feed.btc_dominance
        /\ snap.fear_greed = feed.fear_greed
        /\ (pc \in {"loop_end", "stopped"} =>
                (evaluated /\ last_oi = Some(feed.open_interest)))

\* The calendar request failed while the calendar had entries, and the
\* iteration ran to its end.
C10_Witness ==
    /\ macro_failed
    /\ feed.macro_events # <<>>
    /\ snap.macro_events = <<>>
    /\ snap.eth_price = feed.eth_price
    /\ pc = "loop_end"
    /\ evaluated

\* C11: when an adapter before fetch_macro_events raises, the iteration is
\* given up: the adapters called are those up to the one that raised, each
\* once, evaluate is not called, and the only line printed is the diagnostic.
C11_FailureAbortsCycle ==
    failed_adapter # 0 =>
        /\ pc \in {"loop_end", "stopped"}
        /\ failed_adapter \in 1..6
        /\ invoked = SubSeq(Adapters, 1, failed_adapter)
        /\ ~evaluated
        /\ signal = NoSignal
        /\ out = <<ErrorLine>>

\* The funding-rate request failed in an iteration after a successful one.
C11_Witness ==
    /\ failed_adapter = 3
    /\ invoked = <<"fetch_eth_market", "fetch_rsi_macd", "fetch_funding_rate">>
    /\ pc = "loop_end"
    /\ last_oi # None

\* C12: when the candle source delivers fewer than 26 closing prices the
\* iteration fails: the diagnostic is printed, evaluate is not called and
\* last_oi keeps its value.
C12_ShortSeriesFailsCycle ==
    [][(pc = "evaluate" /\ pc' = "loop_end" /\ feed.closes < 26) =>
          /\ out' = <<ErrorLine>>
          /\ ~evaluated'
          /\ last_oi' = last_oi]_vars

\* C13: an iteration whose snapshot satisfies a rule set prints that signal
\* and stamps last_message, however recent the last output is.
C13_SignalNeverThrottled ==
    [][(pc = "evaluate" /\ pc' = "loop_end" /\ (LongRule \/ ShortRule)) =>
          /\ signal' = (IF LongRule THEN GoLong ELSE Sell)
          /\ out' = <<signal'>>
          /\ last_message' = clock']_vars

\* A signal printed in the second iteration, at most 360 seconds after the
\* heartbeat of the first.
C13_Witness ==
    /\ pc = "loop_end"
    /\ out = <<GoLong>>
    /\ cycles = 2
    /\ last_message = clock
    /\ clock >= IdleInterval + SleepInterval

\* C14: with run_forever every iteration, failed or not, is followed by one
\* sleep of 300 seconds before the next one starts, so two iterations never
\* start less than 300 seconds apart.
C14_FailureSleepsToo ==
    [][cycles' # cycles =>
          /\ cycles' = cycles + 1
          /\ sleeps' = sleeps + 1
          /\ clock' - clock = 300
          /\ cycle_start' = clock'
          /\ cycle_start' - cycle_start >= 300]_vars

\* The second iteration starts after the first one failed.
C14_Witness ==
    /\ run_forever
    /\ pc = "gather"
    /\ cycles = 2
    /\ sleeps = 1
    /\ last_oi = None
    /\ out = <<>>
    /\ cycle_start = clock
    /\ clock >= 300

\* C15: a failed iteration leaves last_message as it was, so last_message
\* stays the stamp of the last signal or heartbeat.
C15_FailureKeepsTimestamp ==
    /\ [][((pc' = "loop_end" /\ out' = <<ErrorLine>>)
              \/ (pc = "loop_end" /\ out = <<ErrorLine>>))
          => last_message' = last_message]_vars
    /\ [](hb_at # None => last_message - hb_at[1] \in {0, TickLen})

\* A failed iteration at least one sleep after a heartbeat.
C15_Witness ==
    /\ pc = "loop_end"
    /\ FailedCycle
    /\ hb_at # None
    /\ clock - last_message >= 300

\* C16: evaluate is given the last_oi stored before the iteration's update,
\* which is the open interest of the latest earlier successful iteration,
\* also when failed iterations lie in between.
C16_EvaluateSeesPreviousSuccess ==
    /\ [][(pc = "evaluate" /\ pc' = "loop_end") =>
            /\ last_oi = good_oi
            /\ signal' = evaluate(snap, good_oi)]_vars
    /\ [](last_oi = good_oi)

\* The third iteration succeeded after the second failed and the first
\* succeeded (its heartbeat is the latest output; the run of successes
\* started anew in this iteration).
C16_Witness ==
    /\ pc = "loop_end"
    /\ evaluated
    /\ cycles = 3
    /\ out = <<>>
    /\ run_start = Some(clock)
    /\ hb_at # None
    /\ clock - hb_at[1] >= 2 * 300

\* C17: as long as no iteration has succeeded, and in the first iteration
\* that succeeds, no signal is printed.
C17_NoSignalBeforeSecondSuccess ==
    [][good_oi = None =>
          /\ signal' = NoSignal
          /\ out' \in {<<>>, <<Heartbeat>>, <<ErrorLine>>}]_vars

\* A signal in the second iteration.
C17_Witness ==
    /\ pc = "loop_end"
    /\ out = <<Sell>>
    /\ cycles = 2
    /\ good_oi # None

\* C18: the first iteration that succeeds prints the heartbeat when the
\* clock reads at least 3600, because last_message is still 0; when the
\* clock reads less it prints nothing.
C18_FirstSuccessHeartbeat ==
    [][(pc = "evaluate" /\ pc' = "loop_end" /\ good_oi = None) =>
          /\ last_message = 0
          /\ clock >= 3600 => out' = <<Heartbeat>>
          /\ clock < 3600 => out' = <<>>]_vars

\* The heartbeat of the first iteration of the process.
C18_Witness ==
    /\ pc = "loop_end"
    /\ out = <<Heartbeat>>
    /\ cycles = 1
    /\ sleeps = 0
    /\ evaluated

\* C19: an iteration prints at most one line: a signal, the heartbeat or the
\* diagnostic; the diagnostic never comes with a signal or a heartbeat.
C19_OneEventPerCycle ==
    /\ out \in {<<>>, <<GoLong>>, <<Sell>>, <<Heartbeat>>, <<ErrorLine>>}
    /\ out \in {<<GoLong>>, <<Sell>>} => (evaluated /\ signal = out[1])
    /\ out = <<Heartbeat>> => (evaluated /\ signal = NoSignal)
    /\ out = <<ErrorLine>> => ~evaluated

\* An iteration that printed a signal after two earlier iterations.
C19_Witness ==
    /\ pc = "loop_end"
    /\ out = <<Sell>>
    /\ evaluated
    /\ cycles >= 3

====
